---- MODULE Spec2Model ----
(***************************************************************************)
(* Model of domain_types_linter/linter_types.py: the Linter AST visitor    *)
(* (alias tracking, annotation classification, tree walking) and main().   *)
(*                                                                         *)
(* Identifiers are sequences of one-character strings, so that the suffix  *)
(* test of str.endswith and the "."-join of get_full_attr_name are         *)
(* computed character by character, as Python computes them.               *)
(*                                                                         *)
(* AST nodes are records carrying the fields of the Python ast node of the *)
(* same name (type is the node's class name).  An absent optional child    *)
(* (returns, arg.annotation) is NoneNode.                                  *)
(***************************************************************************)
EXTENDS Integers, Sequences, FiniteSets, TLC

(* ---------------------------- policy data ------------------------------ *)

DISALLOWED_BASE_TYPES ==
    { <<"s","t","r">>,
      <<"i","n","t">>,
      <<"f","l","o","a","t">>,
      <<"c","o","m","p","l","e","x">>,
      <<"b","y","t","e","s">>,
      <<"b","y","t","e","a","r","r","a","y">>,
      <<"D","e","c","i","m","a","l">>,
      <<"A","n","y">>,
      <<"A","n","y","S","t","r">> }

DISALLOWED_GENERIC_TYPES ==
    { <<"l","i","s","t">>,
      <<"L","i","s","t">>,
      <<"d","i","c","t">>,
      <<"D","i","c","t">>,
      <<"s","e","t">>,
      <<"S","e","t">>,
      <<"t","u","p","l","e">>,
      <<"T","u","p","l","e">>,
      <<"f","r","o","z","e","n","s","e","t">>,
      <<"F","r","o","z","e","n","S","e","t">>,
      <<"M","a","p","p","i","n","g">>,
      <<"M","u","t","a","b","l","e","M","a","p","p","i","n","g">>,
      <<"S","e","q","u","e","n","c","e">>,
      <<"M","u","t","a","b","l","e","S","e","q","u","e","n","c","e">>,
      <<"I","t","e","r","a","b","l","e">>,
      <<"I","t","e","r","a","t","o","r">>,
      <<"A","s","y","n","c","I","t","e","r","a","b","l","e">>,
      <<"A","s","y","n","c","I","t","e","r","a","t","o","r">>,
      <<"A","s","y","n","c","G","e","n","e","r","a","t","o","r">>,
      <<"C","o","n","t","a","i","n","e","r">>,
      <<"C","o","l","l","e","c","t","i","o","n">>,
      <<"R","e","v","e","r","s","i","b","l","e">>,
      <<"D","e","f","a","u","l","t","D","i","c","t">>,
      <<"C","h","a","i","n","M","a","p">>,
      <<"G","e","n","e","r","a","t","o","r">>,
      <<"O","p","t","i","o","n","a","l">>,
      <<"C","l","a","s","s","V","a","r">>,
      <<"D","e","q","u","e">>,
      <<"F","i","n","a","l">>,
      <<"A","n","n","o","t","a","t","e","d">> }

ALLOWED_GENERIC_TYPES ==
    { <<"C","a","l","l","a","b","l","e">>,
      <<"A","w","a","i","t","a","b","l","e">>,
      <<"T","y","p","e">> }


(* ------------------------- the Linter's methods ------------------------ *)

NoneNode == [type |-> "None"]

\* record_error: the entry appended to self.errors.  The message text is
\* determined by the node's lineno, the message template (kind) and the name
\* interpolated into it.
record_error(node, kind, name) ==
    [lineno |-> node.lineno, kind |-> kind, name |-> name]

\* Variant of endswith: the name is matched only as a whole final segment.
endswith_segment(s, suffix) ==
    \/ s = suffix
    \/ /\ Len(suffix) + 1 <= Len(s)
       /\ SubSeq(s, Len(s) - Len(suffix), Len(s)) = <<".">> \o suffix

\* str.endswith
endswith(s, suffix) ==
    /\ Len(suffix) <= Len(s)
    /\ SubSeq(s, Len(s) - Len(suffix) + 1, Len(s)) = suffix

RECURSIVE reversed(_)
reversed(s) ==
    IF s = <<>> THEN <<>> ELSE Append(reversed(Tail(s)), Head(s))

RECURSIVE join(_)
\* ".".join(parts)
join(parts) ==
    IF parts = <<>> THEN <<>>
    ELSE IF Len(parts) = 1 THEN Head(parts)
    ELSE Head(parts) \o <<".">> \o join(Tail(parts))

RECURSIVE attr_names(_)
\* The list get_full_attr_name collects: attributes from the outermost
\* inwards, then the root identifier when the root is a Name.
attr_names(node) ==
    IF node.type = "Attribute" THEN <<node.attr>> \o attr_names(node.value)
    ELSE IF node.type = "Name" THEN <<node.id>>
    ELSE <<>>

\* Variant of get_full_attr_name: the collected list is joined unreversed.
get_full_attr_name_unreversed(node) == join(attr_names(node))

get_full_attr_name(node) == join(reversed(attr_names(node)))

\* Variant of has_parameters: any subscript counts as parameterized.
has_parameters_any_slice(annotation) == TRUE

has_parameters(annotation) ==
    LET slice_node == annotation.slice IN
    IF slice_node.type = "Name"
    THEN ~ (\/ slice_node.id \in DISALLOWED_GENERIC_TYPES
            \/ slice_node.id \in DISALLOWED_BASE_TYPES)
    ELSE TRUE

\* Variant of the identifier branch: the alias set is consulted last.
check_Name_alias_last(annotation, als) ==
    IF annotation.id \in DISALLOWED_BASE_TYPES
    THEN <<[lineno |-> annotation.lineno, kind |-> "BarePrimitive", name |-> annotation.id]>>
    ELSE IF annotation.id \in DISALLOWED_GENERIC_TYPES
    THEN <<[lineno |-> annotation.lineno, kind |-> "UnparameterizedGeneric",
            name |-> annotation.id]>>
    ELSE IF annotation.id \in als
    THEN <<[lineno |-> annotation.lineno, kind |-> "AliasLeak", name |-> annotation.id]>>
    ELSE <<>>

\* Identifier branch of check_annotation.
check_Name(annotation, als) ==
    IF annotation.id \in als
    THEN <<record_error(annotation, "AliasLeak", annotation.id)>>
    ELSE IF annotation.id \in DISALLOWED_BASE_TYPES
    THEN <<record_error(annotation, "BarePrimitive", annotation.id)>>
    ELSE IF annotation.id \in DISALLOWED_GENERIC_TYPES
    THEN <<record_error(annotation, "UnparameterizedGeneric", annotation.id)>>
    ELSE <<>>

\* The DISALLOWED_BASE_TYPES entries the loop of the Attribute branch finds
\* to be a suffix of full_name; each one records an error.
matching_disallowed(full_name) ==
    {disallowed \in DISALLOWED_BASE_TYPES : endswith(full_name, disallowed)}

RECURSIVE repeat(_, _)
repeat(e, n) == IF n = 0 THEN <<>> ELSE <<e>> \o repeat(e, n - 1)

\* Attribute branch of check_annotation: one identical entry per matching
\* disallowed name (so the set's iteration order does not show).
check_Attribute(annotation) ==
    LET full_name == get_full_attr_name(annotation) IN
    repeat(record_error(annotation, "BarePrimitive", full_name),
           Cardinality(matching_disallowed(full_name)))

\* The outer-name error of the Subscript branch for a disallowed generic.
check_outer_generic(annotation) ==
    IF ~ has_parameters(annotation)
    THEN <<record_error(annotation.value, "UnparameterizedGeneric",
                        annotation.value.id)>>
    ELSE <<>>

RECURSIVE check_annotation(_, _)
RECURSIVE check_each(_, _)

\* for elt in elts: self.check_annotation(elt)
check_each(elts, als) ==
    IF elts = <<>> THEN <<>>
    ELSE check_annotation(Head(elts), als) \o check_each(Tail(elts), als)

\* Subscript branch of check_annotation.
check_Subscript(annotation, als) ==
    LET outer_type == annotation.value
        inner_annotation == annotation.slice
    IN  IF outer_type.type = "Name"
        THEN IF outer_type.id \in DISALLOWED_GENERIC_TYPES
             THEN check_outer_generic(annotation)
                      \o check_annotation(inner_annotation, als)
             ELSE IF outer_type.id \in ALLOWED_GENERIC_TYPES
             THEN check_annotation(inner_annotation, als)
             ELSE check_annotation(inner_annotation, als)
        ELSE check_annotation(outer_type, als)
                 \o check_annotation(inner_annotation, als)

\* check_annotation(annotation) with self.aliases = als: the entries it
\* appends to self.errors, in order.
check_annotation(annotation, als) ==
    IF annotation.type = "Name" THEN check_Name(annotation, als)
    ELSE IF annotation.type = "Subscript" THEN check_Subscript(annotation, als)
    ELSE IF annotation.type = "BinOp" /\ annotation.op = "BitOr"
    THEN check_annotation(annotation.left, als)
             \o check_annotation(annotation.right, als)
    ELSE IF annotation.type = "Tuple" THEN check_each(annotation.elts, als)
    ELSE IF annotation.type = "Call" THEN check_each(annotation.args, als)
    ELSE IF annotation.type = "Attribute" THEN check_Attribute(annotation)
    ELSE <<>>

\* The state of a Linter: [aliases, errors].
RECURSIVE visit(_, _)
RECURSIVE visit_body(_, _)

\* generic_visit over a list of statements.
visit_body(stmts, st) ==
    IF stmts = <<>> THEN st
    ELSE visit_body(Tail(stmts), visit(Head(stmts), st))

\* The names visit_Assign adds to self.aliases.
new_aliases(node) ==
    IF node.value.type = "Name" /\ node.value.id \in DISALLOWED_BASE_TYPES
    THEN {node.targets[i].id :
             i \in {j \in DOMAIN node.targets : node.targets[j].type = "Name"}}
    ELSE {}

\* visit_Assign; its generic_visit reaches only expressions, for which the
\* Linter defines no visitor.
visit_Assign(node, st) ==
    [st EXCEPT !.aliases = st.aliases \cup new_aliases(node)]

visit_AnnAssign(node, st) ==
    IF node.annotation.type # "None"
    THEN [st EXCEPT !.errors = st.errors \o check_annotation(node.annotation, st.aliases)]
    ELSE st

\* The parameters visit_FunctionDef loops over.
checked_args(node) == node.args.args

RECURSIVE check_args(_, _)
check_args(arglist, als) ==
    IF arglist = <<>> THEN <<>>
    ELSE (IF Head(arglist).annotation.type # "None"
          THEN check_annotation(Head(arglist).annotation, als)
          ELSE <<>>)
         \o check_args(Tail(arglist), als)

\* The entries visit_FunctionDef appends before its generic_visit.
check_signature(node, als) ==
    (IF node.returns.type # "None"
     THEN check_annotation(node.returns, als) ELSE <<>>)
    \o check_args(checked_args(node), als)

visit_FunctionDef(node, st) ==
    visit_body(node.body,
               [st EXCEPT !.errors = st.errors \o check_signature(node, st.aliases)])

\* NodeVisitor.generic_visit of a statement with no visit_ method
\* (AsyncFunctionDef, ClassDef, Pass, ...): only the statements of its body
\* have visitors.
generic_visit(node, st) ==
    IF "body" \in DOMAIN node THEN visit_body(node.body, st) ELSE st

\* NodeVisitor.visit: dispatch on the class name.
visit(node, st) ==
    IF node.type = "Assign" THEN visit_Assign(node, st)
    ELSE IF node.type = "AnnAssign" THEN visit_AnnAssign(node, st)
    ELSE IF node.type = "FunctionDef" THEN visit_FunctionDef(node, st)
    ELSE generic_visit(node, st)

\* Variant of exit_status: the report never fails the run.
exit_status_always_zero(errs) == 0

\* main's exit status after linter.visit(tree): sys.exit(1) when
\* linter.errors is non-empty, otherwise main returns and the status is 0.
exit_status(errs) == IF errs # <<>> THEN 1 ELSE 0

(* ------------- identifiers occurring in the linted sources ------------- *)

id_int == <<"i","n","t">>
id_str == <<"s","t","r">>
id_float == <<"f","l","o","a","t">>
id_Decimal == <<"D","e","c","i","m","a","l">>
id_AnyStr == <<"A","n","y","S","t","r">>
id_list == <<"l","i","s","t">>
id_dict == <<"d","i","c","t">>
id_Callable == <<"C","a","l","l","a","b","l","e">>
id_UserId == <<"U","s","e","r","I","d">>
id_A == <<"A">>
id_x == <<"x">>
id_f == <<"f">>
id_CustomStr == <<"C","u","s","t","o","m","S","t","r">>
id_Customstr == <<"C","u","s","t","o","m","s","t","r">>
id_Endpoint == <<"E","n","d","p","o","i","n","t">>
id_DomainAmount == <<"D","o","m","a","i","n","A","m","o","u","n","t">>
id_somemodule == <<"s","o","m","e","m","o","d","u","l","e">>
id_typing == <<"t","y","p","i","n","g">>
id_pkg == <<"p","k","g">>
id_NewType == <<"N","e","w","T","y","p","e">>

(* --------------------- syntax trees given to the Linter ---------------- *)

\* Node constructors; lineno is filled in by the layout below.
NameNode(id) == [type |-> "Name", id |-> id, lineno |-> 0]
AttributeNode(value, attr) ==
    [type |-> "Attribute", value |-> value, attr |-> attr, lineno |-> 0]
SubscriptNode(value, slice) ==
    [type |-> "Subscript", value |-> value, slice |-> slice, lineno |-> 0]
BinOpNode(left, op, right) ==
    [type |-> "BinOp", left |-> left, op |-> op, right |-> right, lineno |-> 0]
TupleNode(elts) == [type |-> "Tuple", elts |-> elts, lineno |-> 0]
ListNode(elts) == [type |-> "List", elts |-> elts, lineno |-> 0]
CallNode(func, args) ==
    [type |-> "Call", func |-> func, args |-> args, lineno |-> 0]
ConstantNode == [type |-> "Constant", lineno |-> 0]

ArgNode(annotation) == [type |-> "arg", annotation |-> annotation, lineno |-> 0]
Arguments(posonlyargs, args, vararg, kwonlyargs, kwarg) ==
    [posonlyargs |-> posonlyargs, args |-> args, vararg |-> vararg,
     kwonlyargs |-> kwonlyargs, kwarg |-> kwarg]
AssignNode(targets, value) ==
    [type |-> "Assign", targets |-> targets, value |-> value, lineno |-> 0]
AnnAssignNode(annotation) ==
    [type |-> "AnnAssign", target |-> NameNode(id_x), annotation |-> annotation,
     lineno |-> 0]
FunctionDefNode(kind, args, returns, body) ==
    [type |-> kind, args |-> args, returns |-> returns, body |-> body,
     lineno |-> 0]
ClassDefNode(body) == [type |-> "ClassDef", body |-> body, lineno |-> 0]
PassNode == [type |-> "Pass", lineno |-> 0]

\* Layout: the parser's lineno for every node.  With step = 0 an expression
\* is written on one line; with step = 1 every operand is written on a line
\* of its own (inside brackets or parentheses), in source order.
RECURSIVE Lines(_, _)
RECURSIVE LinesOfAll(_, _)
LinesOfAll(nodes, step) ==
    IF nodes = <<>> THEN 0
    ELSE Lines(Head(nodes), step) + LinesOfAll(Tail(nodes), step)

Max(a, b) == IF a >= b THEN a ELSE b

\* Number of source lines an expression (or parameter) occupies.
Lines(node, step) ==
    IF step = 0 THEN 1
    ELSE CASE node.type = "Attribute" -> Lines(node.value, step)
           [] node.type = "Subscript" ->
                  Lines(node.value, step) + Lines(node.slice, step)
           [] node.type = "BinOp" ->
                  Lines(node.left, step) + Lines(node.right, step)
           [] node.type \in {"Tuple", "List"} ->
                  Max(1, LinesOfAll(node.elts, step))
           [] node.type = "Call" ->
                  Lines(node.func, step) + LinesOfAll(node.args, step)
           [] node.type = "arg" ->
                  IF node.annotation.type = "None" THEN 1
                  ELSE Lines(node.annotation, step)
           [] OTHER -> 1

RECURSIVE Place(_, _, _)
RECURSIVE PlaceAll(_, _, _)
\* Consecutive operands, the first at line.
PlaceAll(nodes, line, step) ==
    IF nodes = <<>> THEN <<>>
    ELSE <<Place(Head(nodes), line, step)>>
         \o PlaceAll(Tail(nodes), line + step * Lines(Head(nodes), step), step)

\* The expression (or parameter) with its first token at line.
Place(node, line, step) ==
    CASE node.type = "None" -> node
      [] node.type = "Attribute" ->
             [node EXCEPT !.lineno = line, !.value = Place(@, line, step)]
      [] node.type = "Subscript" ->
             [node EXCEPT !.lineno = line,
                          !.value = Place(@, line, step),
                          !.slice = Place(@, line + step * Lines(node.value, step), step)]
      [] node.type = "BinOp" ->
             [node EXCEPT !.lineno = line,
                          !.left = Place(@, line, step),
                          !.right = Place(@, line + step * Lines(node.left, step), step)]
      [] node.type \in {"Tuple", "List"} ->
             [node EXCEPT !.lineno = line, !.elts = PlaceAll(@, line, step)]
      [] node.type = "Call" ->
             [node EXCEPT !.lineno = line,
                          !.func = Place(@, line, step),
                          !.args = PlaceAll(@, line + step * Lines(node.func, step), step)]
      [] node.type = "arg" ->
             [node EXCEPT !.lineno = line, !.annotation = Place(@, line, step)]
      [] OTHER -> [node EXCEPT !.lineno = line]

\* The parameters of a signature in source order.
all_args(a) == a.posonlyargs \o a.args \o a.vararg \o a.kwonlyargs \o a.kwarg

RECURSIVE StmtLines(_, _)
RECURSIVE BodyLines(_, _)
BodyLines(stmts, step) ==
    IF stmts = <<>> THEN 0
    ELSE StmtLines(Head(stmts), step) + BodyLines(Tail(stmts), step)

\* Lines of the header of a def: "def f(" with, for step = 1, one group of
\* lines per parameter and one for the return annotation.
HeaderLines(node, step) ==
    IF step = 0 THEN 1
    ELSE 1 + LinesOfAll(all_args(node.args), step)
           + (IF node.returns.type = "None" THEN 0 ELSE Lines(node.returns, step))

StmtLines(node, step) ==
    CASE node.type = "AnnAssign" -> Lines(node.annotation, step)
      [] node.type \in {"FunctionDef", "AsyncFunctionDef"} ->
             HeaderLines(node, step) + Max(1, BodyLines(node.body, step))
      [] node.type = "ClassDef" -> 1 + Max(1, BodyLines(node.body, step))
      [] OTHER -> 1

PlaceArguments(a, line, step) ==
    LET l1 == line
        l2 == l1 + step * LinesOfAll(a.posonlyargs, step)
        l3 == l2 + step * LinesOfAll(a.args, step)
        l4 == l3 + step * LinesOfAll(a.vararg, step)
        l5 == l4 + step * LinesOfAll(a.kwonlyargs, step)
    IN  [posonlyargs |-> PlaceAll(a.posonlyargs, l1, step),
         args |-> PlaceAll(a.args, l2, step),
         vararg |-> PlaceAll(a.vararg, l3, step),
         kwonlyargs |-> PlaceAll(a.kwonlyargs, l4, step),
         kwarg |-> PlaceAll(a.kwarg, l5, step)]

RECURSIVE PlaceStmt(_, _, _)
RECURSIVE PlaceBody(_, _, _)
\* Consecutive statements, the first at line.
PlaceBody(stmts, line, step) ==
    IF stmts = <<>> THEN <<>>
    ELSE <<PlaceStmt(Head(stmts), line, step)>>
         \o PlaceBody(Tail(stmts), line + StmtLines(Head(stmts), step), step)

PlaceStmt(node, line, step) ==
    CASE node.type = "Assign" ->
             [node EXCEPT !.lineno = line,
                          !.targets = [i \in DOMAIN @ |-> Place(@[i], line, 0)],
                          !.value = Place(@, line, 0)]
      [] node.type = "AnnAssign" ->
             [node EXCEPT !.lineno = line,
                          !.target = Place(@, line, 0),
                          !.annotation = Place(@, line, step)]
      [] node.type \in {"FunctionDef", "AsyncFunctionDef"} ->
             [node EXCEPT !.lineno = line,
                          !.args = PlaceArguments(@, line + step, step),
                          !.returns = Place(@, line + step
                                               + step * LinesOfAll(all_args(node.args), step),
                                            step),
                          !.body = PlaceBody(@, line + HeaderLines(node, step), step)]
      [] node.type = "ClassDef" ->
             [node EXCEPT !.lineno = line, !.body = PlaceBody(@, line + 1, step)]
      [] OTHER -> [node EXCEPT !.lineno = line]

\* The body of the Module ast.parse returns for a source whose statements
\* are stmts, the first on line 1.
ParsedModule(stmts, step) == PlaceBody(stmts, 1, step)

(* ------------------------------ inputs --------------------------------- *)

\* Longest module (in top-level statements) main is run on.
MaxStmts == 2

\* Nesting depth of the composite annotations given to the Linter.
MaxDepth == 2

\* The two layouts of the source text.
Steps == {0, 1}

IntName == NameNode(id_int)
UserIdName == NameNode(id_UserId)
NoArgs == Arguments(<<>>, <<>>, <<>>, <<>>, <<>>)

\* def f(<one parameter of each kind in turn>: int): pass
OneParamDefs ==
    { FunctionDefNode("FunctionDef", a, NoneNode, <<>>) :
        a \in { Arguments(<<ArgNode(IntName)>>, <<>>, <<>>, <<>>, <<>>),
                Arguments(<<>>, <<ArgNode(IntName)>>, <<>>, <<>>, <<>>),
                Arguments(<<>>, <<>>, <<ArgNode(IntName)>>, <<>>, <<>>),
                Arguments(<<>>, <<>>, <<>>, <<ArgNode(IntName)>>, <<>>),
                Arguments(<<>>, <<>>, <<>>, <<>>, <<ArgNode(IntName)>>) } }

PlainArgs(annotation) == Arguments(<<>>, <<ArgNode(annotation)>>, <<>>, <<>>, <<>>)

\* The statements of the modules main is run on.
StmtPool ==
    { AssignNode(<<NameNode(id_A)>>, IntName),                  \* A = int
      AssignNode(<<NameNode(id_A)>>, UserIdName),               \* A = UserId
      AnnAssignNode(NameNode(id_A)),                            \* x: A
      AnnAssignNode(IntName),                                   \* x: int
      AnnAssignNode(UserIdName),                                \* x: UserId
      FunctionDefNode("FunctionDef", PlainArgs(IntName),
                      NameNode(id_str), <<>>),                  \* def f(x: int) -> str
      FunctionDefNode("FunctionDef", PlainArgs(NoneNode),
                      UserIdName, <<>>),                        \* def f(x) -> UserId
      FunctionDefNode("AsyncFunctionDef", PlainArgs(IntName),
                      NameNode(id_str), <<>>),                  \* async def f(x: int) -> str
      FunctionDefNode("FunctionDef", NoArgs, NoneNode,
                      <<AnnAssignNode(NameNode(id_float))>>),   \* def f(): x: float
      ClassDefNode(<<AssignNode(<<NameNode(id_A)>>, IntName)>>),\* class C: A = int
      PassNode }
    \cup OneParamDefs

Modules == UNION { [1..n -> StmtPool] : n \in 0..MaxStmts }

\* Every identifier given to the Linter as a bare annotation.
AllNames ==
    DISALLOWED_BASE_TYPES \cup DISALLOWED_GENERIC_TYPES \cup ALLOWED_GENERIC_TYPES
    \cup {id_UserId, id_A, id_DomainAmount, id_CustomStr}

\* Dotted names: a module, a package path or a call result, then .attr
DottedRoots ==
    { NameNode(id_somemodule),
      AttributeNode(NameNode(id_pkg), id_typing),
      CallNode(NameNode(id_f), <<>>) }

DottedAttrs ==
    DISALLOWED_BASE_TYPES
    \cup {id_DomainAmount, id_CustomStr, id_Customstr, id_Endpoint, id_list}

DottedNames == { AttributeNode(r, a) : r \in DottedRoots, a \in DottedAttrs }

\* G[P] for bare identifiers G and P.
SubscriptOuters ==
    DISALLOWED_GENERIC_TYPES \cup ALLOWED_GENERIC_TYPES
    \cup {id_int, id_Decimal, id_A, id_UserId}

SimpleSubscripts ==
    { SubscriptNode(NameNode(g), NameNode(p)) : g \in SubscriptOuters, p \in AllNames }

\* The leaves of the nested annotations.
CoreLeaves ==
    { IntName, NameNode(id_list), UserIdName, NameNode(id_A),
      AttributeNode(NameNode(id_somemodule), id_Decimal) }

\* One more level of nesting around the annotations of xs.
Compose(xs) ==
    { SubscriptNode(NameNode(o), x) :
        o \in {id_list, id_Callable, id_UserId, id_int}, x \in xs }
    \cup { SubscriptNode(AttributeNode(NameNode(id_somemodule), id_Decimal), x) : x \in xs }
    \cup { BinOpNode(x, "BitOr", IntName) : x \in xs }
    \cup { BinOpNode(UserIdName, "BitOr", x) : x \in xs }
    \cup { BinOpNode(IntName, "Add", x) : x \in xs }
    \cup { TupleNode(<<x, UserIdName>>) : x \in xs }
    \cup { ListNode(<<x>>) : x \in xs }
    \cup { CallNode(NameNode(id_NewType), <<ConstantNode, x>>) : x \in xs }
    \* Callable[[x], UserId]
    \cup { SubscriptNode(NameNode(id_Callable),
                         TupleNode(<<ListNode(<<x>>), UserIdName>>)) : x \in xs }

RECURSIVE Nested(_)
Nested(d) == IF d = 0 THEN CoreLeaves ELSE Nested(d - 1) \cup Compose(Nested(d - 1))

\* The annotations classified one at a time.
Annots ==
    { NameNode(n) : n \in AllNames } \cup {ConstantNode} \cup DottedNames
    \cup SimpleSubscripts \cup Nested(MaxDepth)

\* What precedes the annotated variable in those modules.
Prefixes ==
    { <<>>,
      <<AssignNode(<<NameNode(id_A)>>, IntName)>>,                          \* A = int
      <<AssignNode(<<NameNode(id_Decimal)>>, NameNode(id_float))>>,         \* Decimal = float
      <<AssignNode(<<NameNode(id_list), AttributeNode(NameNode(id_x), id_A)>>,
                   NameNode(id_str))>>,                                     \* list = x.A = str
      <<AssignNode(<<NameNode(id_A)>>,
                   AttributeNode(NameNode(id_somemodule), id_int))>>,       \* A = somemodule.int
      <<FunctionDefNode("FunctionDef", PlainArgs(IntName), NoneNode, <<>>)>>, \* def f(x: int)
      <<PassNode>> }

AnnotatedModules == { p \o <<AnnAssignNode(a)>> : p \in Prefixes, a \in Annots }

(* --------------------------- the state machine ------------------------- *)

VARIABLES
    pc,           \* where main is: "open", "parse", "visit", "exited"
    opened,       \* the file was opened and read
    parsed,       \* ast.parse returned a tree
    linter,       \* "none" until Linter() is constructed
    todo,         \* statements of the module body not yet visited
    visited,      \* statements of the module body already visited
    aliases,      \* Linter.aliases
    errors,       \* Linter.errors
    prev_errors,  \* Linter.errors before the latest top-level visit
    exit_code     \* the process's exit status; -1 while it is running

vars == <<pc, opened, parsed, linter, todo, visited, aliases, errors,
          prev_errors, exit_code>>

Init ==
    /\ pc = "open"
    /\ opened = FALSE
    /\ parsed = FALSE
    /\ linter = "none"
    /\ todo = <<>>
    /\ visited = <<>>
    /\ aliases = {}
    /\ errors = <<>>
    /\ prev_errors = <<>>
    /\ exit_code = -1

\* open() or read() raises: the message is printed and sys.exit(1).
OpenFails ==
    /\ pc = "open"
    /\ pc' = "exited"
    /\ exit_code' = 1
    /\ UNCHANGED <<opened, parsed, linter, todo, visited, aliases, errors, prev_errors>>

OpenOk ==
    /\ pc = "open"
    /\ opened' = TRUE
    /\ pc' = "parse"
    /\ UNCHANGED <<parsed, linter, todo, visited, aliases, errors, prev_errors, exit_code>>

\* ast.parse raises SyntaxError: the message is printed and sys.exit(1).
ParseFails ==
    /\ pc = "parse"
    /\ pc' = "exited"
    /\ exit_code' = 1
    /\ UNCHANGED <<opened, parsed, linter, todo, visited, aliases, errors, prev_errors>>

\* ast.parse returns the tree; Linter() is constructed and linter.visit(tree)
\* enters visit_Module, whose generic_visit walks the body.
ParseOk ==
    /\ pc = "parse"
    /\ \E m \in Modules, step \in Steps : todo' = ParsedModule(m, step)
    /\ parsed' = TRUE
    /\ linter' = "constructed"
    /\ aliases' = {}
    /\ errors' = <<>>
    /\ pc' = "visit"
    /\ UNCHANGED <<opened, visited, prev_errors, exit_code>>

\* The Linter's state after the visit of the next top-level statement.
Visited(st) ==
    /\ aliases' = st.aliases
    /\ errors' = st.errors
    /\ prev_errors' = errors
    /\ visited' = Append(visited, Head(todo))
    /\ todo' = Tail(todo)
    /\ UNCHANGED <<pc, opened, parsed, linter, exit_code>>

LinterState == [aliases |-> aliases, errors |-> errors]

VisitAssign ==
    /\ pc = "visit" /\ todo # <<>>
    /\ Head(todo).type = "Assign"
    /\ Visited(visit_Assign(Head(todo), LinterState))

VisitAnnAssign ==
    /\ pc = "visit" /\ todo # <<>>
    /\ Head(todo).type = "AnnAssign"
    /\ Visited(visit_AnnAssign(Head(todo), LinterState))

VisitFunctionDef ==
    /\ pc = "visit" /\ todo # <<>>
    /\ Head(todo).type = "FunctionDef"
    /\ Visited(visit_FunctionDef(Head(todo), LinterState))

GenericVisit ==
    /\ pc = "visit" /\ todo # <<>>
    /\ Head(todo).type \notin {"Assign", "AnnAssign", "FunctionDef"}
    /\ Visited(generic_visit(Head(todo), LinterState))

\* linter.visit(tree) has returned: the report is printed and the process
\* ends with exit_status.
Report ==
    /\ pc = "visit" /\ todo = <<>>
    /\ exit_code' = exit_status(errors)
    /\ pc' = "exited"
    /\ UNCHANGED <<opened, parsed, linter, todo, visited, aliases, errors, prev_errors>>

Walk == VisitAssign \/ VisitAnnAssign \/ VisitFunctionDef \/ GenericVisit

Next == OpenFails \/ OpenOk \/ ParseFails \/ ParseOk \/ Walk \/ Report

\* A run of main.
Spec == Init /\ [][Next]_vars

\* linter.visit(tree) on a freshly constructed Linter, for the modules that
\* end in one annotated variable.
InitLinter ==
    /\ pc = "visit"
    /\ opened = TRUE
    /\ parsed = TRUE
    /\ linter = "constructed"
    /\ todo \in { ParsedModule(m, step) : m \in AnnotatedModules, step \in Steps }
    /\ visited = <<>>
    /\ aliases = {}
    /\ errors = <<>>
    /\ prev_errors = <<>>
    /\ exit_code = -1

NextLinter == Walk

LinterSpec == InitLinter /\ [][NextLinter]_vars

(* ------------------------------ properties ----------------------------- *)

LastStmt == visited[Len(visited)]

\* What the latest top-level visit appended to Linter.errors.
Appended == SubSeq(errors, Len(prev_errors) + 1, Len(errors))

\* The latest visit was visit_AnnAssign, which ran check_annotation on Ann
\* with the alias set aliases (visit_AnnAssign leaves the alias set alone).
Classified == visited # <<>> /\ LastStmt.type = "AnnAssign"
Ann == LastStmt.annotation

Violation(node, kind, name) == [lineno |-> node.lineno, kind |-> kind, name |-> name]

\* s is `A = p` with p a disallowed base type name and A a bare identifier.
IsAliasAssign(s) ==
    /\ s.type = "Assign"
    /\ s.value.type = "Name" /\ s.value.id \in DISALLOWED_BASE_TYPES
    /\ Len(s.targets) = 1 /\ s.targets[1].type = "Name"

IsAnnotatedWith(s, id) ==
    s.type = "AnnAssign" /\ s.annotation.type = "Name" /\ s.annotation.id = id

\* C1: a module of one alias assignment `A = p` and one variable annotated
\* `A` yields exactly one AliasLeak violation after the full traversal,
\* whichever of the two statements comes first.
C1_AliasOrderIndependent ==
    (pc = "exited" /\ parsed /\ Len(visited) = 2) =>
        \A i \in 1..2, j \in 1..2 :
            (/\ i # j
             /\ IsAliasAssign(visited[i])
             /\ IsAnnotatedWith(visited[j], visited[i].targets[1].id))
            => errors = <<Violation(visited[j].annotation, "AliasLeak",
                                    visited[j].annotation.id)>>

\* C2: a bare DisallowedBaseTypes identifier as annotation appends exactly
\* one violation, of kind BarePrimitive; a bare DisallowedGenericTypes
\* identifier appends exactly one, of kind UnparameterizedGeneric.
C2_BareIdentifierKind ==
    (Classified /\ Ann.type = "Name") =>
        /\ Ann.id \in DISALLOWED_BASE_TYPES
               => Appended = <<Violation(Ann, "BarePrimitive", Ann.id)>>
        /\ Ann.id \in DISALLOWED_GENERIC_TYPES
               => Appended = <<Violation(Ann, "UnparameterizedGeneric", Ann.id)>>

\* C2 as amended: a bare identifier of DisallowedBaseTypes or
\* DisallowedGenericTypes appends exactly one violation; its kind is
\* AliasLeak when the identifier is in the alias set at that point, and
\* otherwise BarePrimitive, respectively UnparameterizedGeneric.
C2_BareIdentifierOneViolation ==
    (/\ Classified /\ Ann.type = "Name"
     /\ Ann.id \in DISALLOWED_BASE_TYPES \cup DISALLOWED_GENERIC_TYPES) =>
        Appended = <<Violation(Ann,
                               IF Ann.id \in aliases THEN "AliasLeak"
                               ELSE IF Ann.id \in DISALLOWED_BASE_TYPES THEN "BarePrimitive"
                               ELSE "UnparameterizedGeneric",
                               Ann.id)>>

\* A disallowed base type name that was recorded as an alias has been
\* classified.
C2_Witness ==
    /\ Classified /\ Ann.type = "Name"
    /\ Ann.id \in DISALLOWED_BASE_TYPES /\ Ann.id \in aliases
    /\ Len(Appended) = 1

\* An identifier the identifier rule accepts.
IsAcceptedName(id) ==
    id \notin aliases \cup DISALLOWED_BASE_TYPES \cup DISALLOWED_GENERIC_TYPES

\* C3: for G in DisallowedGenericTypes and a bare identifier P, `G[P]`
\* appends exactly two violations when P is in DisallowedGenericTypes or
\* DisallowedBaseTypes, the first anchored at G and the second at P, and
\* appends none when P is an accepted domain type name.
C3_GenericWithBareParameter ==
    (/\ Classified /\ Ann.type = "Subscript"
     /\ Ann.value.type = "Name" /\ Ann.value.id \in DISALLOWED_GENERIC_TYPES
     /\ Ann.slice.type = "Name") =>
        /\ Ann.slice.id \in DISALLOWED_GENERIC_TYPES \cup DISALLOWED_BASE_TYPES
               => /\ Len(Appended) = 2
                  /\ Appended[1] = Violation(Ann.value, "UnparameterizedGeneric", Ann.value.id)
                  /\ Appended[2].lineno = Ann.slice.lineno
                  /\ Appended[2].name = Ann.slice.id
        /\ IsAcceptedName(Ann.slice.id) => Appended = <<>>

\* `list[dict]` written over two lines has been classified.
C3_Witness ==
    /\ Classified /\ Ann.type = "Subscript"
    /\ Ann.value.type = "Name" /\ Ann.value.id = id_list
    /\ Ann.slice.type = "Name" /\ Ann.slice.id = id_dict
    /\ Ann.slice.lineno > Ann.value.lineno
    /\ Len(Appended) = 2

\* A bare disallowed primitive that is not a recorded alias.
IsBarePrimitive(node) ==
    /\ node.type = "Name"
    /\ node.id \in DISALLOWED_BASE_TYPES /\ node.id \notin aliases

\* node is the parameter position of the callable form: `[prim], D` with
\* prim a bare primitive and D an accepted name.
IsCallableForm(node) ==
    /\ node.type = "Tuple" /\ Len(node.elts) = 2
    /\ node.elts[1].type = "List" /\ Len(node.elts[1].elts) = 1
    /\ IsBarePrimitive(node.elts[1].elts[1])
    /\ node.elts[2].type = "Name" /\ IsAcceptedName(node.elts[2].id)

\* C4: an annotation whose outer name is in AllowedGenericTypes and which
\* wraps a disallowed primitive in its parameter position, the callable form
\* `Callable[[int], DomainType]` included, yields exactly one violation, for
\* the inner primitive.
C4_AllowedGenericExemption ==
    (/\ Classified /\ Ann.type = "Subscript"
     /\ Ann.value.type = "Name" /\ Ann.value.id \in ALLOWED_GENERIC_TYPES) =>
        /\ IsBarePrimitive(Ann.slice)
               => Appended = <<Violation(Ann.slice, "BarePrimitive", Ann.slice.id)>>
        /\ IsCallableForm(Ann.slice)
               => Appended = <<Violation(Ann.slice.elts[1].elts[1], "BarePrimitive",
                                         Ann.slice.elts[1].elts[1].id)>>

\* A dotted name: attributes over a plain identifier.
RECURSIVE IsDotted(_)
IsDotted(node) ==
    node.type = "Attribute" /\ (node.value.type = "Name" \/ IsDotted(node.value))

\* The dotted path as written in the source.
RECURSIVE DottedPath(_)
DottedPath(node) ==
    IF node.type = "Attribute" THEN DottedPath(node.value) \o <<".">> \o node.attr
    ELSE node.id

HasSuffix(s, t) ==
    /\ Len(t) <= Len(s)
    /\ \A i \in 1..Len(t) : s[Len(s) - Len(t) + i] = t[i]

\* C5: a dotted name whose final segment is a DisallowedBaseTypes entry
\* appends exactly one BarePrimitive violation; a dotted name of whose full
\* path no DisallowedBaseTypes entry is a suffix appends none.
C5_QualifiedNames ==
    (Classified /\ IsDotted(Ann)) =>
        /\ Ann.attr \in DISALLOWED_BASE_TYPES
               => Appended = <<Violation(Ann, "BarePrimitive", DottedPath(Ann))>>
        /\ (\A d \in DISALLOWED_BASE_TYPES : ~ HasSuffix(DottedPath(Ann), d))
               => Appended = <<>>

\* `pkg.typing.AnyStr`, which ends in AnyStr and holds Any, has been
\* classified.
C5_Witness ==
    /\ Classified /\ IsDotted(Ann)
    /\ Ann.attr = id_AnyStr /\ Ann.value.type = "Attribute"
    /\ Len(Appended) = 1

\* The annotations at the declaration sites of a function's signature, in
\* source order of the parameters, then the return annotation.
SignatureSites(fn) ==
    LET params == all_args(fn.args)
        annotated == SelectSeq(params, LAMBDA a : a.annotation.type # "None")
    IN  [i \in 1..Len(annotated) |-> annotated[i].annotation]
        \o (IF fn.returns.type # "None" THEN <<fn.returns>> ELSE <<>>)

IsReported(site) ==
    \E i \in DOMAIN errors :
        errors[i].lineno = site.lineno /\ errors[i].name = site.id

\* C6: for every function declaration the traversal reached, plain or
\* async, the return annotation and the annotation of every parameter of
\* every kind is classified (a bare disallowed base type there is reported);
\* a declaration with no annotation to report appends nothing.
C6_ParameterCoverage ==
    \A k \in DOMAIN visited :
        visited[k].type \in {"FunctionDef", "AsyncFunctionDef"} =>
            LET sites == SignatureSites(visited[k]) IN
            /\ \A i \in DOMAIN sites :
                   (sites[i].type = "Name" /\ sites[i].id \in DISALLOWED_BASE_TYPES)
                   => IsReported(sites[i])
            /\ (/\ k = Len(visited)
                /\ visited[k].body = <<>>
                /\ \A i \in DOMAIN sites :
                       sites[i].type = "Name" /\ IsAcceptedName(sites[i].id))
               => Appended = <<>>

\* C7: main's exit code is 0 exactly when the file was opened, parsed, and
\* the finished traversal's report is empty; it is 1 when the report is
\* non-empty, when the file cannot be opened and when the source does not
\* parse, and in the last two cases no Linter ever ran.
C7_ExitCode ==
    pc = "exited" =>
        /\ exit_code \in {0, 1}
        /\ exit_code = 0 <=> (opened /\ parsed /\ todo = <<>> /\ errors = <<>>)
        /\ errors # <<>> => exit_code = 1
        /\ (~ opened \/ ~ parsed)
               => (exit_code = 1 /\ linter = "none" /\ visited = <<>> /\ errors = <<>>)

\* main has ended with status 0 after a traversal that visited statements.
C7_Witness ==
    /\ pc = "exited" /\ exit_code = 0
    /\ Len(visited) = MaxStmts
    /\ \E k \in DOMAIN visited : visited[k].type = "AnnAssign"

\* C8: for a subscript `B[P]` whose outer B is a plain identifier in neither
\* DisallowedGenericTypes nor AllowedGenericTypes, B is classified too: when
\* B is in the alias set or in DisallowedBaseTypes its violation is appended,
\* followed by whatever P yields.
C8_SubscriptFallThrough ==
    (/\ Classified /\ Ann.type = "Subscript"
     /\ Ann.value.type = "Name"
     /\ Ann.value.id \notin DISALLOWED_GENERIC_TYPES \cup ALLOWED_GENERIC_TYPES
     /\ Ann.value.id \in aliases \cup DISALLOWED_BASE_TYPES) =>
        /\ Len(Appended) >= 1
        /\ Appended[1].lineno = Ann.value.lineno
        /\ Appended[1].name = Ann.value.id
        /\ Appended[1].kind \in {"AliasLeak", "BarePrimitive"}

\* C9: the violations of Linter.errors are in document order of their
\* annotation nodes, so their line numbers never decrease along the list.
C9_DocumentOrder ==
    \A i \in DOMAIN errors, j \in DOMAIN errors :
        i < j => errors[i].lineno <= errors[j].lineno

\* C10: a dotted annotation whose final segment is `CustomStr` is flagged
\* with a BarePrimitive violation.
C10_CustomStrFlagged ==
    (Classified /\ IsDotted(Ann) /\ Ann.attr = id_CustomStr) =>
        \E i \in DOMAIN Appended : Appended[i].kind = "BarePrimitive"

\* C10 as amended: the suffix test is case-sensitive.  A dotted annotation
\* whose final segment ends with a DisallowedBaseTypes entry in the same
\* letter case without being that entry (`Endpoint`, `Customstr`) is flagged
\* with one BarePrimitive violation naming the full path; `CustomStr`, which
\* ends with `Str` and not `str`, is not flagged.
C10_SuffixOverMatching ==
    (Classified /\ IsDotted(Ann)) =>
        /\ (/\ Ann.attr \notin DISALLOWED_BASE_TYPES
            /\ \E d \in DISALLOWED_BASE_TYPES : HasSuffix(Ann.attr, d))
               => Appended = <<Violation(Ann, "BarePrimitive", DottedPath(Ann))>>
        /\ Ann.attr = id_CustomStr => Appended = <<>>

\* `somemodule.Endpoint`, a domain type ending in "int", has been classified.
C10_Witness ==
    /\ Classified /\ IsDotted(Ann)
    /\ Ann.attr = id_Endpoint
    /\ Appended # <<>>
====
